---- MODULE Spec2Model ----
(***************************************************************************)
(* Model of GoogleDocsClient (src/google_docs_client.py): the markdown to  *)
(* Google Docs request conversion, document creation and tab selection.    *)
(*                                                                         *)
(* A Python str is modelled as a sequence of one-character strings.        *)
(* Offsets are kept as the code keeps them: 0-based, end exclusive.        *)
(***************************************************************************)
EXTENDS Integers, Sequences, FiniteSets, TLC

\* ------------------------------------------------------------------------
\* Bounds of the model and the input alphabet
\* ------------------------------------------------------------------------

\* Largest number of pieces concatenated into one input content.
MaxPieces == 4

NL == "\n"

\* The box-drawing character U+2500 (one character of the str), and the rule
\* prefix made of four of them.
BoxChar == "U+2500"
BoxRule == <<BoxChar, BoxChar, BoxChar, BoxChar>>

\* The pieces input contents are built from.
Pieces ==
  { <<"a">>, <<" ">>, <<"*", "*">>, <<"*", "*", "b", "*", "*">>,
    <<"#", " ">>, <<"#", "#", " ">>, <<"-", "-", "-">>, <<"-">>,
    <<">">>, <<NL>>, BoxRule }

\* The end-to-end scenario "# Report\n\nOur **key** finding.\n".
Scenario8 ==
  <<"#", " ", "R", "e", "p", "o", "r", "t", NL, NL,
    "O", "u", "r", " ", "*", "*", "k", "e", "y", "*", "*", " ",
    "f", "i", "n", "d", "i", "n", "g", ".", NL>>

RECURSIVE Concat(_)
Concat(ss) == IF ss = <<>> THEN <<>> ELSE Head(ss) \o Concat(Tail(ss))

PieceSeqs == UNION { [1..n -> Pieces] : n \in 0..MaxPieces }

Contents == { Concat(ps) : ps \in PieceSeqs } \cup { Scenario8 }

\* ------------------------------------------------------------------------
\* str helpers
\* ------------------------------------------------------------------------

\* str.split('\n')
SplitLines(s) ==
  LET F[k \in 0..Len(s)] ==
        IF k = 0 THEN << <<>> >>
        ELSE LET prev == F[k - 1] IN
             IF s[k] = NL THEN Append(prev, <<>>)
             ELSE [prev EXCEPT ![Len(prev)] = Append(@, s[k])]
  IN F[Len(s)]

\* ''.join(list)
Join(ss) == Concat(ss)

\* str.startswith(prefix)
StartsWith(s, prefix) ==
  /\ Len(s) >= Len(prefix)
  /\ SubSeq(s, 1, Len(prefix)) = prefix

\* The characters str.strip() removes (those that can occur here).
Whitespace == {" ", "\t", "\r", NL}

\* str.lstrip(chars)
RECURSIVE LStrip(_, _)
LStrip(s, chars) ==
  IF s # <<>> /\ Head(s) \in chars THEN LStrip(Tail(s), chars) ELSE s

\* str.rstrip(chars)
RECURSIVE RStrip(_, _)
RStrip(s, chars) ==
  IF s # <<>> /\ s[Len(s)] \in chars
    THEN RStrip(SubSeq(s, 1, Len(s) - 1), chars)
    ELSE s

\* str.strip()
Strip(s) == RStrip(LStrip(s, Whitespace), Whitespace)

\* ------------------------------------------------------------------------
\* The regular expression \*\*([^*]+)\*\*
\* ------------------------------------------------------------------------

\* Index of the first "*" of s at or after k, 0 when there is none.
RECURSIVE NextStar(_, _)
NextStar(s, k) ==
  IF k > Len(s) THEN 0
  ELSE IF s[k] = "*" THEN k
  ELSE NextStar(s, k + 1)

\* The pattern tried at position p (1-based): the index of the last character
\* of the match, 0 when the pattern does not match there.
MatchEnd(s, p) ==
  IF /\ p + 2 <= Len(s)
     /\ s[p] = "*"
     /\ s[p + 1] = "*"
     /\ s[p + 2] # "*"
  THEN LET q == NextStar(s, p + 3) IN
       IF q # 0 /\ q + 1 <= Len(s) /\ s[q + 1] = "*" THEN q + 1 ELSE 0
  ELSE 0

\* re.finditer(bold_pattern, s): the matches left to right, each with
\* match.start() and match.end() (0-based, end exclusive).
RECURSIVE FindIterFrom(_, _)
FindIterFrom(s, pos) ==
  IF pos > Len(s) THEN <<>>
  ELSE LET e == MatchEnd(s, pos) IN
       IF e # 0
         THEN <<[start |-> pos - 1, end |-> e]>> \o FindIterFrom(s, e + 1)
         ELSE FindIterFrom(s, pos + 1)

FindIter(s) == FindIterFrom(s, 1)

\* re.sub(bold_pattern, r'\1', s): every match replaced by its group 1.
RECURSIVE ReSubFrom(_, _)
ReSubFrom(s, pos) ==
  IF pos > Len(s) THEN <<>>
  ELSE LET e == MatchEnd(s, pos) IN
       IF e # 0
         THEN SubSeq(s, pos + 2, e - 2) \o ReSubFrom(s, e + 1)
         ELSE <<s[pos]>> \o ReSubFrom(s, pos + 1)

\* ReSub taking out every marker character, paired or not.
ReSubEveryStar(s) == SelectSeq(s, LAMBDA c : c # "*")

ReSub(s) == ReSubFrom(s, 1)

\* ------------------------------------------------------------------------
\* _convert_markdown_to_docs_requests: the per-line steps
\* ------------------------------------------------------------------------

H2Prefix == <<"#", "#", " ">>
H1Prefix == <<"#", " ">>
RuleLine == <<"-", "-", "-">>
QuoteIndent == <<" ", " ", " ", " ">>

\* line.startswith('## ')
IsHeading2(line) == StartsWith(line, H2Prefix)

\* elif line.startswith('# ')
IsHeading1(line) == ~IsHeading2(line) /\ StartsWith(line, H1Prefix)

\* IsRule without the comparison to '---'.
IsRuleBoxOnly(line) ==
  /\ ~IsHeading2(line)
  /\ ~IsHeading1(line)
  /\ StartsWith(Strip(line), BoxRule)

\* elif line.strip() == '---' or line.strip().startswith(BoxRule)
IsRule(line) ==
  /\ ~IsHeading2(line)
  /\ ~IsHeading1(line)
  /\ \/ Strip(line) = RuleLine
     \/ StartsWith(Strip(line), BoxRule)

\* else
IsOther(line) == ~IsHeading2(line) /\ ~IsHeading1(line) /\ ~IsRule(line)

\* line.strip().startswith('>')
IsBlockquote(line) == StartsWith(Strip(line), <<">">>)

\* CleanLine without the newline.
CleanLineNoNewline(line, n) == SubSeq(line, n + 1, Len(line))

\* clean_line = line[n:] + '\n'
CleanLine(line, n) == SubSeq(line, n + 1, Len(line)) \o <<NL>>

\* HeadingSpan with the "- 1" forgotten: the span takes in the newline.
HeadingSpanWithNewline(line_start, clean_line, level) ==
  [start |-> line_start,
   end |-> line_start + Len(clean_line),
   format_type |-> "heading",
   level |-> level]

\* (line_start, line_start + len(clean_line) - 1, 'heading', level)
HeadingSpan(line_start, clean_line, level) ==
  [start |-> line_start,
   end |-> line_start + Len(clean_line) - 1,
   format_type |-> "heading",
   level |-> level]

\* BoldSpan subtracting one marker pair only: the span runs two too far.
BoldSpanOneMarker(line_start, m) ==
  [start |-> line_start + m.start,
   end |-> line_start + m.end - 2,
   format_type |-> "bold",
   level |-> 0]

\* (match_start, match_end, 'bold', None); level None is written 0.
BoldSpan(line_start, m) ==
  [start |-> line_start + m.start,
   end |-> line_start + m.end - 4,
   format_type |-> "bold",
   level |-> 0]

\* The spans the finditer loop appends for one line, in order.
BoldSpans(line_start, line) ==
  LET ms == FindIter(line) IN
  [k \in 1..Len(ms) |-> BoldSpan(line_start, ms[k])]

\* processed_line of the else branch, as appended to full_text.
ProcessedLine(line) ==
  LET stripped == ReSub(line \o <<NL>>) IN
  IF IsBlockquote(line)
    THEN QuoteIndent \o LStrip(stripped, {">", " "})
    ELSE stripped

\* formatting_map.sort(key=lambda x: x[0], reverse=True): a stable sort, so
\* spans of equal start keep their order.
RECURSIVE SortDesc(_)
SortDesc(fm) ==
  IF fm = <<>> THEN <<>>
  ELSE LET rest == SortDesc(SubSeq(fm, 1, Len(fm) - 1))
           x == fm[Len(fm)]
           n == Cardinality({k \in 1..Len(rest) : rest[k].start >= x.start})
       IN SubSeq(rest, 1, n) \o <<x>> \o SubSeq(rest, n + 1, Len(rest))

\* requests.append({'insertText': {'location': {'index': 1}, 'text': ...}})
InsertTextRequest(text) ==
  [op |-> "insertText", index |-> 1, text |-> text]

\* The request of one span; indices are shifted to the 1-based convention.
StyleRequest(span) ==
  IF span.format_type = "heading"
    THEN [op |-> "updateParagraphStyle",
          startIndex |-> span.start + 1,
          endIndex |-> span.end + 1,
          style |-> IF span.level = 1 THEN "HEADING_1" ELSE "HEADING_2"]
    ELSE [op |-> "updateTextStyle",
          startIndex |-> span.start + 1,
          endIndex |-> span.end + 1,
          style |-> "bold"]

\* BuildRequests appending the insertion after the style requests.
BuildRequestsInsertLast(text, fm) ==
  [k \in 1..Len(fm) |-> StyleRequest(fm[k])] \o <<InsertTextRequest(text)>>

\* The request list: the insertion, then one request per span of the map.
BuildRequests(text, fm) ==
  <<InsertTextRequest(text)>> \o [k \in 1..Len(fm) |-> StyleRequest(fm[k])]

\* ------------------------------------------------------------------------
\* _convert_markdown_to_docs_requests as one function of its argument
\* ------------------------------------------------------------------------

\* The for loop over the lines ls, from the lists ft (full_text) and fm
\* (formatting_map).
RECURSIVE ConvertLines(_, _, _)
ConvertLines(ls, ft, fm) ==
  IF ls = <<>> THEN [full_text |-> ft, formatting_map |-> fm]
  ELSE LET line == Head(ls)
           line_start == Len(Join(ft))
       IN IF IsHeading2(line)
            THEN ConvertLines(Tail(ls), Append(ft, CleanLine(line, 3)),
                   Append(fm, HeadingSpan(line_start, CleanLine(line, 3), 2)))
          ELSE IF IsHeading1(line)
            THEN ConvertLines(Tail(ls), Append(ft, CleanLine(line, 2)),
                   Append(fm, HeadingSpan(line_start, CleanLine(line, 2), 1)))
          ELSE IF IsRule(line)
            THEN ConvertLines(Tail(ls), Append(ft, <<NL>>), fm)
          ELSE ConvertLines(Tail(ls), Append(ft, ProcessedLine(line)),
                 fm \o BoldSpans(line_start, line))

\* The list the function returns for a content.
ConvertRequests(c) ==
  LET r == ConvertLines(SplitLines(c), <<>>, <<>>) IN
  BuildRequests(Join(r.full_text), SortDesc(r.formatting_map))

\* ------------------------------------------------------------------------
\* State
\* ------------------------------------------------------------------------

VARIABLES
  content,         \* the markdown argument
  requests,        \* the list _convert_markdown_to_docs_requests returns
  \* _convert_markdown_to_docs_requests, line by line
  pc,              \* position in the function
  lines,           \* content.split('\n')
  idx,             \* number of lines the for loop has processed
  full_text,       \* list of the text appended per line
  formatting_map,  \* list of spans
  line_spans,      \* history: the spans appended while processing each line
  \* create_document and _move_to_folder
  cpc,             \* position in create_document
  folder_id,       \* the folder_id argument, NoFolder for None
  calls,           \* history: the remote calls issued, in order
  result,          \* what create_document returned
  parents,         \* the Drive parents of the created document
  previous_parents, \* the parents _move_to_folder read
  responses,       \* history: how each remote call ended, in order
  external,        \* history: the membership changes made by other actors
  \* get_document_content
  document,        \* the document the Docs API returns for the id
  prefer_transcript, \* the prefer_transcript argument
  gpc,             \* position in get_document_content
  transcript_tab,  \* index of the tab held by transcript_tab, 0 for None
  notes_tab,       \* index of the tab held by notes_tab, 0 for None
  outcome,         \* how get_document_content ended, and the str returned
  printed,         \* history: the messages printed
  \* _extract_content_from_elements
  elements,        \* the elements argument
  epc,             \* position in _extract_content_from_elements
  extracted,       \* the list _extract_content_from_elements returned
  \* cli.py
  args,            \* the parsed command line
  ndocs,           \* how many documents or transcripts the source lists
  mpc,             \* position in cli.py
  lidx,            \* number of documents the loading loop has processed
  load_log,        \* history: the outcome of each load, in order
  transcripts,     \* the transcripts list, as ids
  job,             \* the choice being served: its results and save parameters
  attempts         \* history: the saves made for the job, in order

mdVars == <<pc, lines, idx, full_text, formatting_map, line_spans>>

createVars ==
  <<cpc, folder_id, calls, result, parents, previous_parents, responses,
    external>>

tabVars ==
  <<document, prefer_transcript, gpc, transcript_tab, notes_tab, outcome,
    printed>>

extractVars == <<elements, epc, extracted>>

cliVars ==
  <<args, ndocs, mpc, lidx, load_log, transcripts, job, attempts>>

vars ==
  <<content, requests, mdVars, createVars, tabVars, extractVars, cliVars>>

\* What the line-by-line conversion leaves alone.
outsideMd == <<createVars, tabVars, extractVars, cliVars>>

\* What create_document leaves alone.
outsideCreate == <<mdVars, tabVars, extractVars, cliVars>>

\* What get_document_content leaves alone.
outsideTabs ==
  <<content, requests, mdVars, createVars, extractVars, cliVars>>

\* What a call of _extract_content_from_elements on its own leaves alone.
outsideExtract == <<content, requests, mdVars, createVars, tabVars, cliVars>>

\* What cli.py's own steps leave alone.
outsideCli ==
  <<content, requests, mdVars, createVars, tabVars, extractVars>>

\* full_text_str, and len(''.join(full_text)) at any point of the loop.
FullTextStr == Join(full_text)

\* line_start as computed when line j (1-based) was processed.
LineStart(j) == Len(Join(SubSeq(full_text, 1, j - 1)))

NoFolder == "None"
Pending == [kind |-> "pending"]
ReturnedNone == [kind |-> "None"]

MdIdle ==
  /\ pc = "idle"
  /\ lines = <<>>
  /\ idx = 0
  /\ full_text = <<>>
  /\ formatting_map = <<>>
  /\ line_spans = <<>>

CreateIdle ==
  /\ cpc = "idle"
  /\ folder_id = NoFolder
  /\ calls = <<>>
  /\ result = Pending
  /\ parents = {}
  /\ previous_parents = {}
  /\ responses = <<>>
  /\ external = <<>>

NoDocument == [has_tabs |-> FALSE, tabs |-> <<>>, has_body |-> FALSE, body |-> <<>>]

NoOutcome == [kind |-> "pending", text |-> <<>>]

TabsIdle ==
  /\ document = NoDocument
  /\ prefer_transcript = TRUE
  /\ gpc = "idle"
  /\ transcript_tab = 0
  /\ notes_tab = 0
  /\ outcome = NoOutcome
  /\ printed = <<>>

ExtractIdle ==
  /\ elements = <<>>
  /\ epc = "idle"
  /\ extracted = <<>>

NoArgs ==
  [source |-> "gmail", email |-> FALSE, save_local |-> FALSE,
   separate_files |-> FALSE]

NoJob ==
  [choice |-> "none", results |-> <<>>, save_local |-> FALSE,
   separate |-> FALSE, save |-> FALSE]

CliIdle ==
  /\ args = NoArgs
  /\ ndocs = 0
  /\ mpc = "idle"
  /\ lidx = 0
  /\ load_log = <<>>
  /\ transcripts = <<>>
  /\ job = NoJob
  /\ attempts = <<>>

Init ==
  /\ content \in Contents
  /\ requests = <<>>
  /\ pc = "start"
  /\ lines = <<>>
  /\ idx = 0
  /\ full_text = <<>>
  /\ formatting_map = <<>>
  /\ line_spans = <<>>
  /\ CreateIdle
  /\ TabsIdle
  /\ ExtractIdle
  /\ CliIdle

\* requests = [], lines = content.split('\n'), full_text = [], formatting_map = []
Begin ==
  /\ pc = "start"
  /\ lines' = SplitLines(content)
  /\ pc' = "loop"
  /\ UNCHANGED <<content, idx, full_text, formatting_map, line_spans, requests>>
  /\ UNCHANGED outsideMd

\* LineHeading taking line_start from the lines as written in the content
\* instead of from the text flattened so far.
LineHeadingSourceOffset(level) ==
  LET line == lines[idx + 1]
      line_start == Len(Join([k \in 1..idx |-> lines[k] \o <<NL>>]))
      clean_line == CleanLine(line, level + 1)
      span == HeadingSpan(line_start, clean_line, level)
  IN /\ full_text' = Append(full_text, clean_line)
     /\ formatting_map' = Append(formatting_map, span)
     /\ line_spans' = Append(line_spans, <<span>>)

\* One iteration of the for loop on a '## ' or '# ' line.
LineHeading(level) ==
  LET line == lines[idx + 1]
      line_start == Len(FullTextStr)
      clean_line == CleanLine(line, level + 1)
      span == HeadingSpan(line_start, clean_line, level)
  IN /\ full_text' = Append(full_text, clean_line)
     /\ formatting_map' = Append(formatting_map, span)
     /\ line_spans' = Append(line_spans, <<span>>)

LineHeading2 ==
  /\ pc = "loop"
  /\ idx < Len(lines)
  /\ IsHeading2(lines[idx + 1])
  /\ LineHeading(2)
  /\ idx' = idx + 1
  /\ UNCHANGED <<content, pc, lines, requests>>
  /\ UNCHANGED outsideMd

LineHeading1 ==
  /\ pc = "loop"
  /\ idx < Len(lines)
  /\ IsHeading1(lines[idx + 1])
  /\ LineHeading(1)
  /\ idx' = idx + 1
  /\ UNCHANGED <<content, pc, lines, requests>>
  /\ UNCHANGED outsideMd

\* One iteration on a horizontal rule.
LineRule ==
  /\ pc = "loop"
  /\ idx < Len(lines)
  /\ IsRule(lines[idx + 1])
  /\ full_text' = Append(full_text, <<NL>>)
  /\ line_spans' = Append(line_spans, <<>>)
  /\ idx' = idx + 1
  /\ UNCHANGED <<content, pc, lines, formatting_map, requests>>
  /\ UNCHANGED outsideMd

\* One iteration on any other line.
LineOther ==
  /\ pc = "loop"
  /\ idx < Len(lines)
  /\ IsOther(lines[idx + 1])
  /\ LET line == lines[idx + 1]
         spans == BoldSpans(Len(FullTextStr), line)
     IN /\ formatting_map' = formatting_map \o spans
        /\ line_spans' = Append(line_spans, spans)
        /\ full_text' = Append(full_text, ProcessedLine(line))
  /\ idx' = idx + 1
  /\ UNCHANGED <<content, pc, lines, requests>>
  /\ UNCHANGED outsideMd

\* Emit without the sort: the requests follow the order of collection.
EmitWithoutSort ==
  /\ pc = "loop"
  /\ idx = Len(lines)
  /\ requests' = BuildRequests(FullTextStr, formatting_map)
  /\ pc' = "done"
  /\ UNCHANGED <<content, lines, idx, full_text, formatting_map, line_spans>>
  /\ UNCHANGED outsideMd

\* After the loop: join, insertText, sort, one request per span, return.
Emit ==
  /\ pc = "loop"
  /\ idx = Len(lines)
  /\ formatting_map' = SortDesc(formatting_map)
  /\ requests' = BuildRequests(FullTextStr, formatting_map')
  /\ pc' = "done"
  /\ UNCHANGED <<content, lines, idx, full_text, line_spans>>
  /\ UNCHANGED outsideMd

Next ==
  \/ Begin
  \/ LineHeading2
  \/ LineHeading1
  \/ LineRule
  \/ LineOther
  \/ Emit

Spec == Init /\ [][Next]_vars

\* ------------------------------------------------------------------------
\* create_document and _move_to_folder, one step per remote call
\* ------------------------------------------------------------------------

\* Largest number of pieces in a content given to create_document.
MaxCreatePieces == 1

CreateContents ==
  { Concat(ps) : ps \in UNION { [1..n -> Pieces] : n \in 0..MaxCreatePieces } }

Folders == {"folderA"}
DocId == "doc1"
RootFolder == "root"
Title == "title"

\* After the create call and the conversion: if requests / if folder_id.
AfterConvert(reqs) ==
  IF reqs # <<>> THEN "batchUpdate"
  ELSE IF folder_id # NoFolder THEN "files.get"
  ELSE "return"

\* AfterBatch without the test of folder_id.
AfterBatchAlwaysMoves == "files.get"

\* After the batch update: if folder_id.
AfterBatch == IF folder_id # NoFolder THEN "files.get" ELSE "return"

InitCreate ==
  /\ content \in CreateContents
  /\ requests = <<>>
  /\ MdIdle
  /\ cpc = "create"
  /\ folder_id \in Folders \cup {NoFolder}
  /\ calls = <<>>
  /\ result = Pending
  /\ parents = {}
  /\ previous_parents = {}
  /\ responses = <<>>
  /\ external = <<>>
  /\ TabsIdle
  /\ ExtractIdle
  /\ CliIdle

\* documents().create(...).execute() returns; the content is converted.
CreateOk ==
  /\ cpc = "create"
  /\ calls' = Append(calls, "create")
  /\ responses' = Append(responses, [call |-> "create", ok |-> TRUE])
  /\ parents' = {RootFolder}
  /\ requests' = ConvertRequests(content)
  /\ cpc' = AfterConvert(requests')
  /\ UNCHANGED <<content, folder_id, result, previous_parents>>
  /\ UNCHANGED external
  /\ UNCHANGED outsideCreate

\* documents().create(...).execute() raises HttpError: return None.
CreateFails ==
  /\ cpc = "create"
  /\ calls' = Append(calls, "create")
  /\ responses' = Append(responses, [call |-> "create", ok |-> FALSE])
  /\ result' = ReturnedNone
  /\ cpc' = "done"
  /\ UNCHANGED <<content, requests, folder_id, parents, previous_parents>>
  /\ UNCHANGED external
  /\ UNCHANGED outsideCreate

\* documents().batchUpdate(...).execute() returns.
BatchOk ==
  /\ cpc = "batchUpdate"
  /\ calls' = Append(calls, "batchUpdate")
  /\ responses' = Append(responses, [call |-> "batchUpdate", ok |-> TRUE])
  /\ cpc' = AfterBatch
  /\ UNCHANGED <<content, requests, folder_id, result, parents, previous_parents>>
  /\ UNCHANGED external
  /\ UNCHANGED outsideCreate

\* BatchFails with the HttpError swallowed: create_document carries on.
BatchFailsProceeds ==
  /\ cpc = "batchUpdate"
  /\ calls' = Append(calls, "batchUpdate")
  /\ responses' = Append(responses, [call |-> "batchUpdate", ok |-> FALSE])
  /\ cpc' = AfterBatch
  /\ UNCHANGED <<content, requests, folder_id, result, parents, previous_parents>>
  /\ UNCHANGED external
  /\ UNCHANGED outsideCreate

\* documents().batchUpdate(...).execute() raises HttpError: return None.
BatchFails ==
  /\ cpc = "batchUpdate"
  /\ calls' = Append(calls, "batchUpdate")
  /\ responses' = Append(responses, [call |-> "batchUpdate", ok |-> FALSE])
  /\ result' = ReturnedNone
  /\ cpc' = "done"
  /\ UNCHANGED <<content, requests, folder_id, parents, previous_parents>>
  /\ UNCHANGED external
  /\ UNCHANGED outsideCreate

\* _move_to_folder: files().get(fields='parents') returns.
MoveGetOk ==
  /\ cpc = "files.get"
  /\ calls' = Append(calls, "files.get")
  /\ responses' = Append(responses, [call |-> "files.get", ok |-> TRUE])
  /\ previous_parents' = parents
  /\ cpc' = "files.update"
  /\ UNCHANGED <<content, requests, folder_id, result, parents>>
  /\ UNCHANGED external
  /\ UNCHANGED outsideCreate

\* MoveGetFails with the HttpError reaching the handler of create_document.
MoveGetFailsReturnsNone ==
  /\ cpc = "files.get"
  /\ calls' = Append(calls, "files.get")
  /\ responses' = Append(responses, [call |-> "files.get", ok |-> FALSE])
  /\ result' = ReturnedNone
  /\ cpc' = "done"
  /\ UNCHANGED <<content, requests, folder_id, parents, previous_parents>>
  /\ UNCHANGED external
  /\ UNCHANGED outsideCreate

\* _move_to_folder: files().get raises HttpError, caught in _move_to_folder.
MoveGetFails ==
  /\ cpc = "files.get"
  /\ calls' = Append(calls, "files.get")
  /\ responses' = Append(responses, [call |-> "files.get", ok |-> FALSE])
  /\ cpc' = "return"
  /\ UNCHANGED <<content, requests, folder_id, result, parents, previous_parents>>
  /\ UNCHANGED external
  /\ UNCHANGED outsideCreate

\* MoveUpdateOk that replaces the whole membership by the destination.
MoveUpdateOkReplacesAll ==
  /\ cpc = "files.update"
  /\ calls' = Append(calls, "files.update")
  /\ responses' = Append(responses, [call |-> "files.update", ok |-> TRUE])
  /\ parents' = {folder_id}
  /\ cpc' = "return"
  /\ UNCHANGED <<content, requests, folder_id, result, previous_parents>>
  /\ UNCHANGED external
  /\ UNCHANGED outsideCreate

\* _move_to_folder: files().update(addParents, removeParents) returns.
MoveUpdateOk ==
  /\ cpc = "files.update"
  /\ calls' = Append(calls, "files.update")
  /\ responses' = Append(responses, [call |-> "files.update", ok |-> TRUE])
  /\ parents' = (parents \ previous_parents) \cup {folder_id}
  /\ cpc' = "return"
  /\ UNCHANGED <<content, requests, folder_id, result, previous_parents>>
  /\ UNCHANGED external
  /\ UNCHANGED outsideCreate

\* _move_to_folder: files().update raises HttpError, caught.
MoveUpdateFails ==
  /\ cpc = "files.update"
  /\ calls' = Append(calls, "files.update")
  /\ responses' = Append(responses, [call |-> "files.update", ok |-> FALSE])
  /\ cpc' = "return"
  /\ UNCHANGED <<content, requests, folder_id, result, parents, previous_parents>>
  /\ UNCHANGED external
  /\ UNCHANGED outsideCreate

\* return {'id': doc_id, 'url': doc_url, 'title': title}
CreateReturns ==
  /\ cpc = "return"
  /\ result' = [id |-> DocId, url |-> <<"https://docs.google.com/document/d/", DocId, "/edit">>, title |-> Title]
  /\ cpc' = "done"
  /\ UNCHANGED <<content, requests, folder_id, calls, parents, previous_parents,
                 responses>>
  /\ UNCHANGED external
  /\ UNCHANGED outsideCreate

NextCreate ==
  \/ CreateOk
  \/ CreateFails
  \/ BatchOk
  \/ BatchFails
  \/ MoveGetOk
  \/ MoveGetFails
  \/ MoveUpdateOk
  \/ MoveUpdateFails
  \/ CreateReturns

SpecCreate == InitCreate /\ [][NextCreate]_vars

\* ------------------------------------------------------------------------
\* create_document while other actors change the document's folders
\* ------------------------------------------------------------------------

\* Largest number of membership changes other actors make during one run.
MaxExternal == 1

\* The folders other actors put the document in.
ExternalFolders == {"folderB"}

\* Another actor adds the created document to a folder. Nothing in
\* _move_to_folder ties the files().update to what files().get returned, so
\* this can happen at any point once the document exists.
ExternalAdd ==
  /\ parents # {}
  /\ Len(external) < MaxExternal
  /\ \E f \in ExternalFolders :
       /\ parents' = parents \cup {f}
       /\ external' = Append(external, [at |-> cpc, folder |-> f])
  /\ UNCHANGED <<content, requests, cpc, folder_id, calls, result,
                 previous_parents, responses>>
  /\ UNCHANGED outsideCreate

\* Another actor moves the created document to a folder.
ExternalMove ==
  /\ parents # {}
  /\ Len(external) < MaxExternal
  /\ \E f \in ExternalFolders :
       /\ parents' = {f}
       /\ external' = Append(external, [at |-> cpc, folder |-> f])
  /\ UNCHANGED <<content, requests, cpc, folder_id, calls, result,
                 previous_parents, responses>>
  /\ UNCHANGED outsideCreate

NextRace ==
  \/ CreateOk
  \/ CreateFails
  \/ BatchOk
  \/ BatchFails
  \/ MoveGetOk
  \/ MoveGetFails
  \/ MoveUpdateOk
  \/ MoveUpdateFails
  \/ CreateReturns
  \/ ExternalAdd
  \/ ExternalMove

SpecRace == InitCreate /\ [][NextRace]_vars

\* ------------------------------------------------------------------------
\* _extract_content_from_elements
\* ------------------------------------------------------------------------

\* Document elements as the Docs API returns them: a dict with one key that
\* names its kind.
TextRun(text) == [kind |-> "textRun", content |-> text]
Paragraph(runs) == [kind |-> "paragraph", elements |-> runs]
Table(rows) == [kind |-> "table", tableRows |-> rows]
SectionBreak == [kind |-> "sectionBreak"]

\* for text_run in paragraph.get('elements', []): if 'textRun' in text_run
ParagraphContent(p) ==
  LET runs == SelectSeq(p.elements, LAMBDA e : e.kind = "textRun") IN
  [k \in 1..Len(runs) |-> runs[k].content]

\* CellContent that reads only the first element of the cell.
CellContentFirstElement(cell) ==
  IF cell # <<>> /\ cell[1].kind = "paragraph"
    THEN ParagraphContent(cell[1])
    ELSE <<>>

\* The paragraphs of one cell; any other cell element adds nothing.
CellContent(cell) ==
  Concat([e \in 1..Len(cell) |->
            IF cell[e].kind = "paragraph" THEN ParagraphContent(cell[e])
            ELSE <<>>])

\* for row in table.get('tableRows', []): for cell in row.get('tableCells', [])
TableContent(t) ==
  Concat([r \in 1..Len(t.tableRows) |->
            Concat([c \in 1..Len(t.tableRows[r]) |->
                      CellContent(t.tableRows[r][c])])])

\* ExtractContent whose loop ends at the first element that is neither a
\* paragraph nor a table.
ExtractContentUntilUnknown(elms) ==
  LET unknown == {e \in 1..Len(elms) : elms[e].kind \notin {"paragraph", "table"}}
      n == IF unknown = {} THEN Len(elms)
           ELSE (CHOOSE e \in unknown : \A u \in unknown : e <= u) - 1
  IN  Concat([e \in 1..n |->
                IF elms[e].kind = "paragraph" THEN ParagraphContent(elms[e])
                ELSE TableContent(elms[e])])

\* The list of text-run contents _extract_content_from_elements returns.
ExtractContent(elms) ==
  Concat([e \in 1..Len(elms) |->
            IF elms[e].kind = "paragraph"
              THEN ParagraphContent(elms[e])
            ELSE IF elms[e].kind = "table"
              THEN TableContent(elms[e])
            ELSE <<>>])

\* Largest number of elements of a body given to the extraction.
MaxElements == 3

\* A paragraph element that is not a text run.
InlineObject == [kind |-> "inlineObjectElement"]

\* A paragraph of one text run.
TextParagraph(text) == Paragraph(<<TextRun(text)>>)

\* The elements the bodies are made of. Every text run has its own text.
BodyElements ==
  { TextParagraph(<<"a">>),
    Paragraph(<<TextRun(<<"b">>), InlineObject, TextRun(<<"c", NL>>)>>),
    Paragraph(<<>>),
    \* two rows; the second cell of the first row holds two paragraphs
    Table(<< << <<TextParagraph(<<"d">>)>>,
                <<TextParagraph(<<"e">>), TextParagraph(<<"f">>)>> >>,
             << <<TextParagraph(<<"g">>)>> >> >>),
    \* a cell that holds a section break before its paragraph
    Table(<< << <<SectionBreak, TextParagraph(<<"h">>)>> >> >>),
    \* a cell that holds a table between two paragraphs
    Table(<< << <<TextParagraph(<<"i">>),
                  Table(<< << <<TextParagraph(<<"j">>)>> >> >>),
                  TextParagraph(<<"k">>)>> >> >>),
    SectionBreak }

\* The bodies of up to MaxElements elements.
Bodies == UNION { [1..n -> BodyElements] : n \in 0..MaxElements }

InitExtract ==
  /\ content = <<>>
  /\ requests = <<>>
  /\ MdIdle
  /\ CreateIdle
  /\ TabsIdle
  /\ elements \in Bodies
  /\ epc = "call"
  /\ extracted = <<>>
  /\ CliIdle

\* _extract_content_from_elements(elements) runs and returns its list.
Extract ==
  /\ epc = "call"
  /\ extracted' = ExtractContent(elements)
  /\ epc' = "done"
  /\ UNCHANGED elements
  /\ UNCHANGED outsideExtract

NextExtract == Extract

SpecExtract == InitExtract /\ [][NextExtract]_vars

\* ------------------------------------------------------------------------
\* get_document_content
\* ------------------------------------------------------------------------

\* Largest number of tabs of a fetched document.
MaxTabs == 3

UpperCase ==
  <<"A", "B", "C", "D", "E", "F", "G", "H", "I", "J", "K", "L", "M",
    "N", "O", "P", "Q", "R", "S", "T", "U", "V", "W", "X", "Y", "Z">>
LowerCase ==
  <<"a", "b", "c", "d", "e", "f", "g", "h", "i", "j", "k", "l", "m",
    "n", "o", "p", "q", "r", "s", "t", "u", "v", "w", "x", "y", "z">>

\* str.lower()
Lower(s) ==
  [k \in 1..Len(s) |->
     IF \E n \in 1..26 : UpperCase[n] = s[k]
       THEN LowerCase[CHOOSE n \in 1..26 : UpperCase[n] = s[k]]
       ELSE s[k]]

StrTranscript == <<"t", "r", "a", "n", "s", "c", "r", "i", "p", "t">>
StrNotes == <<"n", "o", "t", "e", "s">>

\* The tab titles of the fetched documents.
TitleTranscript == <<"T", "r", "a", "n", "s", "c", "r", "i", "p", "t">>
TitleTRANSCRIPT == <<"T", "R", "A", "N", "S", "C", "R", "I", "P", "T">>
TitleNotes == <<"N", "o", "t", "e", "s">>
TitleNOTES == <<"N", "O", "T", "E", "S">>
TitleOther == <<"O", "t", "h", "e", "r">>
TabTitles ==
  {TitleTranscript, TitleTRANSCRIPT, TitleNotes, TitleNOTES, TitleOther}

Digits == <<"1", "2", "3", "4", "5", "6", "7", "8", "9">>

\* The body of the tab at position k; its text names the position. Tabs at
\* odd positions hold a paragraph, tabs at even positions a table and a
\* section break.
TabBody(k) ==
  IF k % 2 = 1
    THEN << Paragraph(<<TextRun(<<"p", Digits[k]>>), TextRun(<<NL>>)>>) >>
    ELSE << Table(<< << << Paragraph(<<TextRun(<<"c", Digits[k]>>)>>) >> >> >>),
            SectionBreak >>

\* A tab: tabProperties.title (which may be missing) and documentTab.body.
TabsAt(k) ==
  { [has_title |-> TRUE, title |-> t, body |-> TabBody(k)] : t \in TabTitles }
  \cup { [has_title |-> FALSE, title |-> <<>>, body |-> TabBody(k)] }

\* The tab lists of length n.
RECURSIVE TabListsOfLen(_)
TabListsOfLen(n) ==
  IF n = 0 THEN { <<>> }
  ELSE { Append(ts, t) : ts \in TabListsOfLen(n - 1), t \in TabsAt(n) }

TabLists == UNION { TabListsOfLen(n) : n \in 0..MaxTabs }

\* The top-level body of a document that has one.
LegacyBody == << Paragraph(<<TextRun(<<"L">>), TextRun(<<NL>>)>>) >>

\* The documents the fetch can return: with a 'tabs' key (a list, possibly
\* empty) or without, with a top-level 'body' or without.
Documents ==
  { [has_tabs |-> TRUE, tabs |-> ts, has_body |-> hb,
     body |-> IF hb THEN LegacyBody ELSE <<>>] :
      ts \in TabLists, hb \in BOOLEAN }
  \cup
  { [has_tabs |-> FALSE, tabs |-> <<>>, has_body |-> hb,
     body |-> IF hb THEN LegacyBody ELSE <<>>] : hb \in BOOLEAN }

\* TitleLower without the .lower(): the titles are compared as written.
TitleNotLowered(tab) == IF tab.has_title THEN tab.title ELSE <<>>

\* tab.get('tabProperties', {}).get('title', '').lower()
TitleLower(tab) == IF tab.has_title THEN Lower(tab.title) ELSE <<>>

\* The tab the scanning loop leaves in a variable that is assigned on every
\* tab whose lowered title is name: the last such tab, 0 (None) without one.
LastTitled(tabs, name) ==
  LET hits == {k \in 1..Len(tabs) : TitleLower(tabs[k]) = name} IN
  IF hits = {} THEN 0 ELSE CHOOSE k \in hits : \A h \in hits : h <= k

\* ''.join(self._extract_content_from_elements(doc_content))
BodyText(elms) == Join(ExtractContent(elms))

MsgFetchError == "An error occurred fetching document"
MsgTranscript == "Processing Transcript Tab"
MsgNotesNotPreferred ==
  "Using Notes tab (Transcript tab exists but prefer_transcript=False)"
MsgNotesOnly == "Using Notes tab (no Transcript tab available)"
MsgNeither == "Warning: Neither Transcript nor Notes tab found"

InitTabs ==
  /\ content = <<>>
  /\ requests = <<>>
  /\ MdIdle
  /\ CreateIdle
  /\ document \in Documents
  /\ prefer_transcript \in BOOLEAN
  /\ gpc = "fetch"
  /\ transcript_tab = 0
  /\ notes_tab = 0
  /\ outcome = NoOutcome
  /\ printed = <<>>
  /\ ExtractIdle
  /\ CliIdle

\* documents().get(...).execute() raises HttpError: print, return ''.
FetchFails ==
  /\ gpc = "fetch"
  /\ printed' = Append(printed, MsgFetchError)
  /\ outcome' = [kind |-> "return", text |-> <<>>]
  /\ gpc' = "done"
  /\ UNCHANGED <<document, prefer_transcript, transcript_tab, notes_tab>>
  /\ UNCHANGED outsideTabs

\* documents().get(...).execute() returns the document: if 'tabs' in document.
FetchOk ==
  /\ gpc = "fetch"
  /\ gpc' = IF document.has_tabs THEN "scan" ELSE "legacy"
  /\ UNCHANGED <<document, prefer_transcript, transcript_tab, notes_tab,
                 outcome, printed>>
  /\ UNCHANGED outsideTabs

\* for tab in document['tabs']: find the Transcript and Notes tabs.
ScanTabs ==
  /\ gpc = "scan"
  /\ transcript_tab' = LastTitled(document.tabs, StrTranscript)
  /\ notes_tab' = LastTitled(document.tabs, StrNotes)
  /\ gpc' = "select"
  /\ UNCHANGED <<document, prefer_transcript, outcome, printed>>
  /\ UNCHANGED outsideTabs

\* if prefer_transcript and transcript_tab: extract and return it.
SelectTranscript ==
  /\ gpc = "select"
  /\ prefer_transcript /\ transcript_tab # 0
  /\ printed' = Append(printed, MsgTranscript)
  /\ outcome' = [kind |-> "return",
                 text |-> BodyText(document.tabs[transcript_tab].body)]
  /\ gpc' = "done"
  /\ UNCHANGED <<document, prefer_transcript, transcript_tab, notes_tab>>
  /\ UNCHANGED outsideTabs

\* elif notes_tab: extract and return it.
SelectNotes ==
  /\ gpc = "select"
  /\ ~(prefer_transcript /\ transcript_tab # 0)
  /\ notes_tab # 0
  /\ printed' = Append(printed,
                  IF transcript_tab # 0 THEN MsgNotesNotPreferred
                  ELSE MsgNotesOnly)
  /\ outcome' = [kind |-> "return",
                 text |-> BodyText(document.tabs[notes_tab].body)]
  /\ gpc' = "done"
  /\ UNCHANGED <<document, prefer_transcript, transcript_tab, notes_tab>>
  /\ UNCHANGED outsideTabs

\* else (selected_tab is None): warn, document['tabs'][0], extract, return.
FallbackFirstTab ==
  /\ gpc = "select"
  /\ ~(prefer_transcript /\ transcript_tab # 0)
  /\ notes_tab = 0
  /\ Len(document.tabs) >= 1
  /\ printed' = Append(printed, MsgNeither)
  /\ outcome' = [kind |-> "return", text |-> BodyText(document.tabs[1].body)]
  /\ gpc' = "done"
  /\ UNCHANGED <<document, prefer_transcript, transcript_tab, notes_tab>>
  /\ UNCHANGED outsideTabs

\* else with an empty list: warn, then document['tabs'][0] raises IndexError,
\* which 'except HttpError' does not catch.
FallbackIndexError ==
  /\ gpc = "select"
  /\ ~(prefer_transcript /\ transcript_tab # 0)
  /\ notes_tab = 0
  /\ Len(document.tabs) = 0
  /\ printed' = Append(printed, MsgNeither)
  /\ outcome' = [kind |-> "raise IndexError", text |-> <<>>]
  /\ gpc' = "done"
  /\ UNCHANGED <<document, prefer_transcript, transcript_tab, notes_tab>>
  /\ UNCHANGED outsideTabs

\* Legacy format: document.get('body', {}).get('content', []).
LegacyBodyReturn ==
  /\ gpc = "legacy"
  /\ outcome' = [kind |-> "return", text |-> BodyText(document.body)]
  /\ gpc' = "done"
  /\ UNCHANGED <<document, prefer_transcript, transcript_tab, notes_tab,
                 printed>>
  /\ UNCHANGED outsideTabs

NextTabs ==
  \/ FetchFails
  \/ FetchOk
  \/ ScanTabs
  \/ SelectTranscript
  \/ SelectNotes
  \/ FallbackFirstTab
  \/ FallbackIndexError
  \/ LegacyBodyReturn

SpecTabs == InitTabs /\ [][NextTabs]_vars

\* ------------------------------------------------------------------------
\* get_plain_document_content, next to get_document_content
\* ------------------------------------------------------------------------

\* Either getter is called on the document id.
InitFetch ==
  /\ content = <<>>
  /\ requests = <<>>
  /\ MdIdle
  /\ CreateIdle
  /\ document \in Documents
  /\ prefer_transcript \in BOOLEAN
  /\ gpc \in {"fetch", "plain_fetch"}
  /\ transcript_tab = 0
  /\ notes_tab = 0
  /\ outcome = NoOutcome
  /\ printed = <<>>
  /\ ExtractIdle
  /\ CliIdle

\* get_plain_document_content: documents().get(...).execute() raises
\* HttpError: print, return ''.
PlainFetchFails ==
  /\ gpc = "plain_fetch"
  /\ printed' = Append(printed, MsgFetchError)
  /\ outcome' = [kind |-> "return", text |-> <<>>]
  /\ gpc' = "plain_done"
  /\ UNCHANGED <<document, prefer_transcript, transcript_tab, notes_tab>>
  /\ UNCHANGED outsideTabs

\* get_plain_document_content: the document is returned; the text of
\* document.get('body', {}).get('content', []) is joined and returned.
PlainFetchOk ==
  /\ gpc = "plain_fetch"
  /\ outcome' = [kind |-> "return", text |-> BodyText(document.body)]
  /\ gpc' = "plain_done"
  /\ UNCHANGED <<document, prefer_transcript, transcript_tab, notes_tab,
                 printed>>
  /\ UNCHANGED outsideTabs

NextFetch ==
  \/ FetchFails
  \/ FetchOk
  \/ ScanTabs
  \/ SelectTranscript
  \/ SelectNotes
  \/ FallbackFirstTab
  \/ FallbackIndexError
  \/ LegacyBodyReturn
  \/ PlainFetchFails
  \/ PlainFetchOk

SpecFetch == InitFetch /\ [][NextFetch]_vars

\* ------------------------------------------------------------------------
\* cli.py: the command line, the loading loop, the menus and the saves
\* ------------------------------------------------------------------------

\* Largest number of documents (Drive) or transcripts (Gmail) listed.
MaxDocs == 3

\* The command lines: --source, --email, --save-local, --separate-files.
\* --email is read in Gmail mode only.
ArgsSet ==
  { [source |-> s, email |-> e, save_local |-> l, separate_files |-> f] :
      s \in {"drive", "gmail"}, e \in BOOLEAN, l \in BOOLEAN, f \in BOOLEAN }

\* Sequence of the ids a..b.
IdRange(a, b) == [k \in 1..(b - a + 1) |-> a + k - 1]

\* What analyzer.analyze_transcript returns for the transcripts ids: one
\* result per transcript, each with or without an 'error' key.
ResultsOf(ids) ==
  { [k \in 1..Len(ids) |-> [id |-> ids[k], error |-> f[k]]] :
      f \in [1..Len(ids) -> BOOLEAN] }

\* The lengths at which the analysis loop can end: the user may decline
\* "Continue to next ...?" after any result but the last.
StopPoints(n) == IF n = 0 THEN {0} ELSE 1..n

\* valid_results = [r for r in results if 'error' not in r]
ValidResults(results) == SelectSeq(results, LAMBDA r : ~r.error)

ResultIds(results) == [k \in 1..Len(results) |-> results[k].id]

\* A save as the history records it: the result ids it covers, how it was
\* made ("local", "gdoc", or "none" when the save function returned early)
\* and whether it succeeded.
Attempt(ids, how, ok) == [ids |-> ids, how |-> how, ok |-> ok]

InitCli ==
  /\ content = <<>>
  /\ requests = <<>>
  /\ MdIdle
  /\ CreateIdle
  /\ TabsIdle
  /\ ExtractIdle
  /\ args \in ArgsSet
  /\ ndocs \in 0..MaxDocs
  /\ mpc = "main"
  /\ lidx = 0
  /\ load_log = <<>>
  /\ transcripts = <<>>
  /\ job = NoJob
  /\ attempts = <<>>

\* __main__ routes to main_menu_drive, which lists the documents and returns
\* when there are none.
MainDrive ==
  /\ mpc = "main"
  /\ args.source = "drive"
  /\ mpc' = IF ndocs = 0 THEN "exit" ELSE "load"
  /\ UNCHANGED <<args, ndocs, lidx, load_log, transcripts, job, attempts>>
  /\ UNCHANGED outsideCli

\* for doc in documents: get_plain_document_content returns text, which is
\* appended to transcripts.
LoadDocumentOk ==
  /\ mpc = "load"
  /\ lidx < ndocs
  /\ load_log' = Append(load_log, [doc |-> lidx + 1, ok |-> TRUE])
  /\ transcripts' = Append(transcripts, lidx + 1)
  /\ lidx' = lidx + 1
  /\ UNCHANGED <<args, ndocs, mpc, job, attempts>>
  /\ UNCHANGED outsideCli

\* AfterLoadEmpty that leaves the loading loop.
AfterLoadEmptyAborts == "exit"

\* Where the loading loop stands after a document came back as '': the loop
\* goes on with the next document.
AfterLoadEmpty == "load"

\* for doc in documents: get_plain_document_content returns '' (the fetch
\* failed, or the document has no text); 'if content:' skips the document.
LoadDocumentEmpty ==
  /\ mpc = "load"
  /\ lidx < ndocs
  /\ load_log' = Append(load_log, [doc |-> lidx + 1, ok |-> FALSE])
  /\ lidx' = lidx + 1
  /\ mpc' = AfterLoadEmpty
  /\ UNCHANGED <<args, ndocs, transcripts, job, attempts>>
  /\ UNCHANGED outsideCli

\* The loading loop has gone through all documents: the menu is shown.
LoadDone ==
  /\ mpc = "load"
  /\ lidx = ndocs
  /\ mpc' = "menu"
  /\ UNCHANGED <<args, ndocs, lidx, load_log, transcripts, job, attempts>>
  /\ UNCHANGED outsideCli

\* __main__ routes to main_menu: gmail.get_transcripts(), return when empty.
MainGmail ==
  /\ mpc = "main"
  /\ args.source = "gmail"
  /\ ~args.email
  /\ transcripts' = IdRange(1, ndocs)
  /\ mpc' = IF ndocs = 0 THEN "exit" ELSE "menu"
  /\ UNCHANGED <<args, ndocs, lidx, load_log, job, attempts>>
  /\ UNCHANGED outsideCli

\* __main__ routes to analyze_specific_email: gmail.get_transcripts(), return
\* when empty.
MainEmail ==
  /\ mpc = "main"
  /\ args.source = "gmail"
  /\ args.email
  /\ transcripts' = IdRange(1, ndocs)
  /\ mpc' = IF ndocs = 0 THEN "exit" ELSE "email"
  /\ UNCHANGED <<args, ndocs, lidx, load_log, job, attempts>>
  /\ UNCHANGED outsideCli

\* save_local of save_analysis and save_combined_analysis when the caller
\* does not pass it: save_local=False.
DefaultSaveLocal == FALSE

\* Where control goes once the saves of job j are over, or when j has none:
\* back to the menu loop, or out of analyze_specific_email.
ReturnPoint(j) == IF j.choice \in {"email", "email all"} THEN "exit" ELSE "menu"

\* The analysis loop of a choice has produced its results; the saves follow
\* when there are results and the user (or batch mode) asks for them.
StartJob(j) ==
  /\ job' = j
  /\ attempts' = <<>>
  /\ mpc' = IF j.save THEN "save" ELSE ReturnPoint(j)
  /\ UNCHANGED <<args, ndocs, lidx, load_log, transcripts>>
  /\ UNCHANGED outsideCli

\* choice == 'q'
ChooseQuit ==
  /\ mpc = "menu"
  /\ mpc' = "exit"
  /\ UNCHANGED <<args, ndocs, lidx, load_log, transcripts, job, attempts>>
  /\ UNCHANGED outsideCli

\* choice == 'all': analyse until the user declines to continue, then
\* "Save analysis?" and the saves, with save_local=save_local.
ChooseAll ==
  /\ mpc = "menu"
  /\ \E m \in StopPoints(Len(transcripts)), confirm \in BOOLEAN :
       \E rs \in ResultsOf(SubSeq(transcripts, 1, m)) :
         StartJob([choice |-> "all", results |-> rs,
                   save_local |-> args.save_local,
                   separate |-> args.separate_files,
                   save |-> rs # <<>> /\ confirm])

\* choice == 'batch': analyse every transcript, then save without asking,
\* with save_local=save_local.
ChooseBatch ==
  /\ mpc = "menu"
  /\ \E rs \in ResultsOf(transcripts) :
       StartJob([choice |-> "batch", results |-> rs,
                 save_local |-> args.save_local,
                 separate |-> args.separate_files,
                 save |-> rs # <<>>])

\* choice == 'range' with a valid range start-end.
ChooseRange ==
  /\ mpc = "menu"
  /\ \E start \in 1..Len(transcripts), confirm \in BOOLEAN :
       \E end \in start..Len(transcripts) :
         \E m \in start..end :
           \E rs \in ResultsOf(SubSeq(transcripts, start, m)) :
             StartJob([choice |-> "range", results |-> rs,
                       save_local |-> args.save_local,
                       separate |-> args.separate_files,
                       save |-> confirm])

\* choice.isdigit() with a valid number: analyse one transcript, "Save this
\* analysis?", then save_analysis(result).
ChooseNumber ==
  /\ mpc = "menu"
  /\ \E n \in 1..Len(transcripts), confirm \in BOOLEAN :
       \E rs \in ResultsOf(<<transcripts[n]>>) :
         StartJob([choice |-> "number", results |-> rs,
                   save_local |-> DefaultSaveLocal,
                   separate |-> TRUE,
                   save |-> confirm])

\* analyze_specific_email returns without an analysis: no match, or several
\* matches and an invalid selection.
EmailNoSelection ==
  /\ mpc = "email"
  /\ mpc' = "exit"
  /\ UNCHANGED <<args, ndocs, lidx, load_log, transcripts, job, attempts>>
  /\ UNCHANGED outsideCli

\* analyze_specific_email with one transcript selected (the only match, or
\* the one chosen by number): "Save this analysis?", save_analysis(result).
EmailOne ==
  /\ mpc = "email"
  /\ \E n \in 1..Len(transcripts), confirm \in BOOLEAN :
       \E rs \in ResultsOf(<<transcripts[n]>>) :
         StartJob([choice |-> "email", results |-> rs,
                   save_local |-> DefaultSaveLocal,
                   separate |-> TRUE,
                   save |-> confirm])

\* analyze_specific_email with several matches and the choice 'all':
\* save_analysis(result) per result or save_combined_analysis(results).
EmailAll ==
  /\ mpc = "email"
  /\ \E matches \in 2..Len(transcripts), confirm \in BOOLEAN :
       \E m \in 1..matches :
         \E rs \in ResultsOf(SubSeq(transcripts, 1, m)) :
           StartJob([choice |-> "email all", results |-> rs,
                     save_local |-> DefaultSaveLocal,
                     separate |-> args.separate_files,
                     save |-> confirm])

\* One call of save_analysis in the loop 'for result in results' (or the
\* single call of the number and email paths): the save recorded is a.
SaveAnalysisStep(a) ==
  /\ attempts' = Append(attempts, a)
  /\ mpc' = IF Len(attempts') = Len(job.results) THEN ReturnPoint(job)
            ELSE "save"
  /\ UNCHANGED <<args, ndocs, lidx, load_log, transcripts, job>>
  /\ UNCHANGED outsideCli

\* The result the next call of save_analysis is given.
NextResult == job.results[Len(attempts) + 1]

\* save_analysis: 'error' in result, "Cannot save analysis with errors."
SaveAnalysisError ==
  /\ mpc = "save"
  /\ job.separate
  /\ NextResult.error
  /\ SaveAnalysisStep(Attempt(<<NextResult.id>>, "none", FALSE))

\* save_analysis: if save_local, the markdown file is written.
SaveAnalysisLocal ==
  /\ mpc = "save"
  /\ job.separate
  /\ ~NextResult.error
  /\ job.save_local
  /\ SaveAnalysisStep(Attempt(<<NextResult.id>>, "local", TRUE))

\* save_analysis: else create_document returns the document.
SaveAnalysisDoc ==
  /\ mpc = "save"
  /\ job.separate
  /\ ~NextResult.error
  /\ ~job.save_local
  /\ SaveAnalysisStep(Attempt(<<NextResult.id>>, "gdoc", TRUE))

\* save_analysis: else create_document returns None, "Failed to create
\* Google Doc" is printed and save_analysis returns.
SaveAnalysisDocFails ==
  /\ mpc = "save"
  /\ job.separate
  /\ ~NextResult.error
  /\ ~job.save_local
  /\ SaveAnalysisStep(Attempt(<<NextResult.id>>, "gdoc", FALSE))

\* The call of save_combined_analysis: the save recorded is a.
SaveCombinedStep(a) ==
  /\ attempts' = Append(attempts, a)
  /\ mpc' = ReturnPoint(job)
  /\ UNCHANGED <<args, ndocs, lidx, load_log, transcripts, job>>
  /\ UNCHANGED outsideCli

\* save_combined_analysis: no valid result, "No valid analyses to save."
SaveCombinedNone ==
  /\ mpc = "save"
  /\ ~job.separate
  /\ ValidResults(job.results) = <<>>
  /\ SaveCombinedStep(Attempt(<<>>, "none", FALSE))

\* save_combined_analysis: if save_local, the combined file is written.
SaveCombinedLocal ==
  /\ mpc = "save"
  /\ ~job.separate
  /\ ValidResults(job.results) # <<>>
  /\ job.save_local
  /\ SaveCombinedStep(
       Attempt(ResultIds(ValidResults(job.results)), "local", TRUE))

\* save_combined_analysis: else create_document returns the document.
SaveCombinedDoc ==
  /\ mpc = "save"
  /\ ~job.separate
  /\ ValidResults(job.results) # <<>>
  /\ ~job.save_local
  /\ SaveCombinedStep(
       Attempt(ResultIds(ValidResults(job.results)), "gdoc", TRUE))

\* save_combined_analysis: else create_document returns None.
SaveCombinedDocFails ==
  /\ mpc = "save"
  /\ ~job.separate
  /\ ValidResults(job.results) # <<>>
  /\ ~job.save_local
  /\ SaveCombinedStep(
       Attempt(ResultIds(ValidResults(job.results)), "gdoc", FALSE))

NextCli ==
  \/ MainDrive
  \/ LoadDocumentOk
  \/ LoadDocumentEmpty
  \/ LoadDone
  \/ MainGmail
  \/ MainEmail
  \/ ChooseQuit
  \/ ChooseAll
  \/ ChooseBatch
  \/ ChooseRange
  \/ ChooseNumber
  \/ EmailNoSelection
  \/ EmailOne
  \/ EmailAll
  \/ SaveAnalysisError
  \/ SaveAnalysisLocal
  \/ SaveAnalysisDoc
  \/ SaveAnalysisDocFails
  \/ SaveCombinedNone
  \/ SaveCombinedLocal
  \/ SaveCombinedDoc
  \/ SaveCombinedDocFails

SpecCli == InitCli /\ [][NextCli]_vars

\* ------------------------------------------------------------------------
\* Vocabulary of the properties
\* ------------------------------------------------------------------------

\* The characters of the flattened text a span [start, end) covers; a span
\* that leaves the text covers no text of it.
SpanText(sp) ==
  IF 0 <= sp.start /\ sp.start <= sp.end /\ sp.end <= Len(FullTextStr)
    THEN SubSeq(FullTextStr, sp.start + 1, sp.end)
    ELSE <<"outside the text">>

\* The text between the markers of match m of a line.
BoldInner(line, m) == SubSeq(line, m.start + 3, m.end - 2)

\* The number of leading characters the blockquote branch removes from a
\* line whose markers are stripped, less the indentation it puts in front.
QuoteShift(line) ==
  IF IsBlockquote(line)
    THEN LET stripped == ReSub(line) IN
         Len(stripped) - Len(LStrip(stripped, {">", " "})) - Len(QuoteIndent)
    ELSE 0

\* Where the text of the k-th bold pair of a line lies in the flattened line:
\* every earlier pair of the line has lost its four marker characters.
BoldOffset(line, k) ==
  FindIter(line)[k].start - 4 * (k - 1) - QuoteShift(line)

\* All spans collected so far, in the order they were appended.
CollectedSpans == Concat(line_spans)

Occurrences(seq, x) == Cardinality({k \in DOMAIN seq : seq[k] = x})

\* ------------------------------------------------------------------------
\* C1: a non-heading, non-rule line with two or more bold pairs gets one Bold
\* span per pair, the spans are pairwise disjoint, and each span lies exactly
\* over the text of its pair in the flattened text.
\* ------------------------------------------------------------------------
C1_MultiBoldExact ==
  \A j \in 1..idx :
    (IsOther(lines[j]) /\ Len(FindIter(lines[j])) >= 2) =>
      LET ms == FindIter(lines[j])
          sp == line_spans[j]
      IN /\ Len(sp) = Len(ms)
         /\ \A k \in 1..Len(sp) :
              /\ sp[k].format_type = "bold"
              /\ sp[k].start = LineStart(j) + BoldOffset(lines[j], k)
              /\ SpanText(sp[k]) = BoldInner(lines[j], ms[k])
         /\ \A k, l \in 1..Len(sp) :
              k < l => (sp[k].end <= sp[l].start \/ sp[l].end <= sp[k].start)

\* ------------------------------------------------------------------------
\* C2: on return every span ends inside the flattened text, so every style
\* request's endIndex is at most 1 + the length of the inserted text.
\* ------------------------------------------------------------------------
C2_RangesInText ==
  pc = "done" =>
    /\ \A k \in 1..Len(formatting_map) :
         formatting_map[k].end <= Len(FullTextStr)
    /\ \A k \in 2..Len(requests) :
         requests[k].endIndex <= 1 + Len(requests[1].text)

\* ------------------------------------------------------------------------
\* C3: every recorded span is non-empty and well-formed, 0 <= start < end.
\* ------------------------------------------------------------------------
C3_SpansNonEmpty ==
  \A k \in 1..Len(formatting_map) :
    /\ 0 <= formatting_map[k].start
    /\ formatting_map[k].start < formatting_map[k].end

\* ------------------------------------------------------------------------
\* C4: a '## ' (resp. '# ') line at any position loses its 3 (resp. 2)
\* character prefix, appends the rest plus one newline, and records one
\* Heading2 (resp. Heading1) span that starts at the length of the text before
\* the append, covers the heading text and excludes the trailing newline.
\* ------------------------------------------------------------------------
C4_HeadingSpan ==
  \A j \in 1..idx :
    \A h \in { [prefix |-> H2Prefix, level |-> 2],
               [prefix |-> H1Prefix, level |-> 1] } :
      StartsWith(lines[j], h.prefix) =>
        LET text == SubSeq(lines[j], Len(h.prefix) + 1, Len(lines[j]))
            before == Len(Join(SubSeq(full_text, 1, j - 1)))
            span == [start |-> before,
                     end |-> before + (Len(text) + 1) - 1,
                     format_type |-> "heading",
                     level |-> h.level]
        IN /\ full_text[j] = text \o <<NL>>
           /\ line_spans[j] = <<span>>
           /\ Occurrences(formatting_map, span) >= 1
           /\ SpanText(span) = text
           /\ FullTextStr[span.end + 1] = NL

\* C4's case: a non-empty Heading2 after the first line, and a Heading1.
C4_Witness ==
  \E j, i \in 1..idx :
    /\ j > 1
    /\ IsHeading2(lines[j])
    /\ Len(lines[j]) > 3
    /\ LineStart(j) > 0
    /\ IsHeading1(lines[i])

\* ------------------------------------------------------------------------
\* C5: a non-heading, non-rule, non-blockquote line with exactly one bold
\* pair is appended without the pair's markers, and one Bold span is recorded
\* that lies exactly over the bold text in the flattened text.
\* ------------------------------------------------------------------------
C5_SingleBoldExact ==
  \A j \in 1..idx :
    ( /\ IsOther(lines[j])
      /\ ~IsBlockquote(lines[j])
      /\ Len(FindIter(lines[j])) = 1 ) =>
      LET line == lines[j]
          m == FindIter(line)[1]
          pre == SubSeq(line, 1, m.start)
          inner == BoldInner(line, m)
          post == SubSeq(line, m.end + 1, Len(line))
          span == [start |-> LineStart(j) + Len(pre),
                   end |-> LineStart(j) + Len(pre) + Len(inner),
                   format_type |-> "bold",
                   level |-> 0]
      IN /\ full_text[j] = pre \o inner \o post \o <<NL>>
         /\ line_spans[j] = <<span>>
         /\ Occurrences(formatting_map, span) >= 1
         /\ SpanText(span) = inner

\* C5's case: such a line after the first line, with text before the pair.
C5_Witness ==
  \E j \in 2..idx :
    /\ IsOther(lines[j])
    /\ ~IsBlockquote(lines[j])
    /\ Len(FindIter(lines[j])) = 1
    /\ FindIter(lines[j])[1].start > 0
    /\ FindIter(lines[j])[1].end < Len(lines[j])

\* ------------------------------------------------------------------------
\* C6: the returned list holds exactly one insertText, first, at the document
\* start, carrying the whole flattened text, followed by exactly one style
\* request per collected span: paragraph style for a heading span, text
\* style (bold) for a Bold span.
\* ------------------------------------------------------------------------
C6_RequestListShape ==
  pc = "done" =>
    /\ Len(requests) = 1 + Len(CollectedSpans)
    /\ requests[1] = [op |-> "insertText", index |-> 1, text |-> FullTextStr]
    /\ \A k \in 2..Len(requests) : requests[k].op # "insertText"
    /\ \A n \in 1..Len(CollectedSpans) :
         LET sp == CollectedSpans[n]
             req == [op |-> IF sp.format_type = "heading"
                              THEN "updateParagraphStyle"
                              ELSE "updateTextStyle",
                     startIndex |-> sp.start + 1,
                     endIndex |-> sp.end + 1,
                     style |-> IF sp.format_type = "bold" THEN "bold"
                               ELSE IF sp.level = 1 THEN "HEADING_1"
                               ELSE "HEADING_2"]
         IN Occurrences(Tail(requests), req) = Occurrences(CollectedSpans, sp)

\* C6's case: a returned list with a heading span and a Bold span.
C6_Witness ==
  /\ pc = "done"
  /\ \E n, k \in 1..Len(CollectedSpans) :
       /\ CollectedSpans[n].format_type = "heading"
       /\ CollectedSpans[k].format_type = "bold"

\* ------------------------------------------------------------------------
\* C7: "# Report\n\nOur **key** finding.\n" yields the flattened text
\* "Report\n\nOur key finding.\n" with no further newline, a Heading1 span
\* over "Report", a Bold span over "key" and exactly three requests:
\* insertText, one paragraph style, one text style.
\* ------------------------------------------------------------------------
C7_EndToEnd ==
  (pc = "done" /\ content = Scenario8) =>
    /\ FullTextStr =
         <<"R", "e", "p", "o", "r", "t", NL, NL,
           "O", "u", "r", " ", "k", "e", "y", " ",
           "f", "i", "n", "d", "i", "n", "g", ".", NL>>
    /\ CollectedSpans =
         << [start |-> 0, end |-> 6, format_type |-> "heading", level |-> 1],
            [start |-> 12, end |-> 15, format_type |-> "bold", level |-> 0] >>
    /\ Len(requests) = 3
    /\ requests[1].op = "insertText"
    /\ {requests[2].op, requests[3].op} =
         {"updateParagraphStyle", "updateTextStyle"}

\* ------------------------------------------------------------------------
\* C8: for empty input content the request list is empty: no insertText is
\* emitted and create_document submits no batch update.
\* ------------------------------------------------------------------------
C8_EmptyContentNoRequests ==
  content = <<>> =>
    /\ requests = <<>>
    /\ \A k \in DOMAIN calls : calls[k] # "batchUpdate"

\* ------------------------------------------------------------------------
\* Vocabulary of the tab properties
\* ------------------------------------------------------------------------

\* The fetch raised HttpError.
FetchFailed == \E k \in DOMAIN printed : printed[k] = MsgFetchError

\* A tab titled 'transcript', resp. 'notes', in any case of the letters.
TranscriptTitled(tab) ==
  tab.has_title /\ tab.title \in {TitleTranscript, TitleTRANSCRIPT}

NotesTitled(tab) ==
  tab.has_title /\ tab.title \in {TitleNotes, TitleNOTES}

\* The text of the body of the tab at position k, and of no other tab.
TabTextAt(k) ==
  IF k % 2 = 1 THEN <<"p", Digits[k], NL>> ELSE <<"c", Digits[k]>>

\* The text of the top-level body of the document.
TopLevelText == IF document.has_body THEN <<"L", NL>> ELSE <<>>

\* ------------------------------------------------------------------------
\* C9: for a document with one or more tabs, get_document_content returns the
\* text of exactly one tab: a tab titled 'transcript' if prefer_transcript
\* and there is one; else a tab titled 'notes' if there is one; else the
\* first tab. The result holds no text of another tab.
\* ------------------------------------------------------------------------
C9_TabChain ==
  ( /\ gpc = "done"
    /\ ~FetchFailed
    /\ document.has_tabs
    /\ Len(document.tabs) >= 1 ) =>
    LET tabs == document.tabs
        transcript_tabs == {k \in 1..Len(tabs) : TranscriptTitled(tabs[k])}
        notes == {k \in 1..Len(tabs) : NotesTitled(tabs[k])}
        eligible == IF prefer_transcript /\ transcript_tabs # {} THEN transcript_tabs
                    ELSE IF notes # {} THEN notes
                    ELSE {1}
    IN /\ outcome.kind = "return"
       /\ \E k \in eligible : outcome.text = TabTextAt(k)

\* C9's case: tabs Notes, TRANSCRIPT, Other in that order, transcript
\* preferred, and the second tab's text returned.
C9_Witness ==
  /\ gpc = "done"
  /\ ~FetchFailed
  /\ prefer_transcript
  /\ document.has_tabs
  /\ Len(document.tabs) = 3
  /\ document.tabs[1].title = TitleNotes
  /\ document.tabs[2].title = TitleTRANSCRIPT
  /\ document.tabs[3].title = TitleOther
  /\ outcome.text = TabTextAt(2)

\* ------------------------------------------------------------------------
\* C10: when the fetched document reports zero tabs (no tab list, or an
\* empty one), get_document_content returns the text of the top-level body.
\* ------------------------------------------------------------------------
C10_ZeroTabsLegacy ==
  ( /\ gpc = "done"
    /\ ~FetchFailed
    /\ (~document.has_tabs \/ Len(document.tabs) = 0) ) =>
    /\ outcome.kind = "return"
    /\ outcome.text = TopLevelText


\* The document has none of the shapes the getter that ran reads text from:
\* for get_plain_document_content no top-level body; for
\* get_document_content no tabs and no top-level body, or an empty tab list.
UnexpectedShape ==
  IF gpc = "plain_done" THEN ~document.has_body
  ELSE \/ ~document.has_tabs /\ ~document.has_body
       \/ document.has_tabs /\ Len(document.tabs) = 0

\* C11: FetchFailure. Neither get_document_content nor
\* get_plain_document_content ever raises to the caller, and when the remote
\* read failed or the document has an unexpected shape (no tabs and no legacy
\* body, or an empty tab list) the getter returns the empty string.
C11_FetchFailureEmpty ==
  gpc \in {"done", "plain_done"} =>
    /\ outcome.kind = "return"
    /\ (FetchFailed \/ UnexpectedShape) => outcome.text = <<>>


\* The contents of all text runs at any depth, in document order: paragraph by
\* paragraph, and in a table row by row, cell by cell, element by element.
RECURSIVE RunsInOrder(_)
RunsInOrder(elms) ==
  Concat([e \in 1..Len(elms) |->
    LET x == elms[e] IN
    IF x.kind = "textRun" THEN <<x.content>>
    ELSE IF x.kind = "paragraph" THEN RunsInOrder(x.elements)
    ELSE IF x.kind = "table" THEN
      Concat([r \in 1..Len(x.tableRows) |->
        Concat([c \in 1..Len(x.tableRows[r]) |->
          RunsInOrder(x.tableRows[r][c])])])
    ELSE <<>>])

\* The cells of a table, in any order.
CellsOf(t) ==
  UNION { { t.tableRows[r][c] : c \in 1..Len(t.tableRows[r]) } :
          r \in 1..Len(t.tableRows) }

\* A body made only of paragraphs and of tables whose cells hold only
\* paragraphs.
PlainBody(elms) ==
  \A e \in 1..Len(elms) :
    \/ elms[e].kind = "paragraph"
    \/ /\ elms[e].kind = "table"
       /\ \A cell \in CellsOf(elms[e]) :
            \A k \in 1..Len(cell) : cell[k].kind = "paragraph"

\* C12: for a body made only of paragraphs and of tables whose cells hold only
\* paragraphs, _extract_content_from_elements returns exactly the contents of
\* all text runs in document order, nothing added, removed or reordered.
C12_PlainBodyVerbatim ==
  (epc = "done" /\ PlainBody(elements)) =>
    /\ extracted = RunsInOrder(elements)
    /\ Join(extracted) = Join(RunsInOrder(elements))

\* A paragraph, then the two-row table, then a paragraph of two runs: seven
\* text runs come back in document order.
C12_Witness ==
  /\ epc = "done"
  /\ PlainBody(elements)
  /\ Len(elements) = 3
  /\ elements[1].kind = "paragraph"
  /\ elements[2].kind = "table"
  /\ Len(elements[2].tableRows) = 2
  /\ elements[3].kind = "paragraph"
  /\ extracted = <<<<"a">>, <<"d">>, <<"e">>, <<"f">>, <<"g">>, <<"b">>, <<"c", NL>>>>


\* No cell of the body holds a table.
NoNestedTable(elms) ==
  \A e \in 1..Len(elms) :
    elms[e].kind = "table" =>
      \A cell \in CellsOf(elms[e]) :
        \A k \in 1..Len(cell) : cell[k].kind # "table"

\* A paragraph without its elements that are not text runs.
RecognizedParagraph(p) ==
  Paragraph(SelectSeq(p.elements, LAMBDA x : x.kind = "textRun"))

\* A cell without its elements that are not paragraphs.
RecognizedCell(cell) ==
  LET ps == SelectSeq(cell, LAMBDA x : x.kind = "paragraph") IN
  [k \in 1..Len(ps) |-> RecognizedParagraph(ps[k])]

\* The body without every element of an unrecognized kind: body elements
\* that are neither paragraph nor table, paragraph elements that are not text
\* runs, cell elements that are not paragraphs.
Recognized(elms) ==
  LET known == SelectSeq(elms, LAMBDA x : x.kind \in {"paragraph", "table"}) IN
  [e \in 1..Len(known) |->
     IF known[e].kind = "paragraph" THEN RecognizedParagraph(known[e])
     ELSE Table([r \in 1..Len(known[e].tableRows) |->
                   [c \in 1..Len(known[e].tableRows[r]) |->
                      RecognizedCell(known[e].tableRows[r][c])]])]

\* C13: body elements of an unrecognized kind and paragraph elements that are
\* not text runs contribute no text and do not stop the extraction: what is
\* returned is the text, in order, of the body with those elements left out.
C13_UnknownKindsSkipped ==
  (epc = "done" /\ NoNestedTable(elements)) =>
    extracted = RunsInOrder(Recognized(elements))

\* A paragraph holding an inline object between two runs, then a section
\* break, then a paragraph: the three runs come back in order.
C13_Witness ==
  /\ epc = "done"
  /\ Len(elements) = 3
  /\ elements[1].kind = "paragraph"
  /\ \E k \in 1..Len(elements[1].elements) :
       elements[1].elements[k] = InlineObject
  /\ elements[2] = SectionBreak
  /\ elements[3].kind = "paragraph"
  /\ extracted = <<<<"b">>, <<"c", NL>>, <<"a">>>>


\* The remote call named c was issued and raised HttpError.
CallFailed(c) ==
  \E k \in DOMAIN responses : responses[k].call = c /\ ~responses[k].ok

\* The remote call named c was issued and returned.
CallReturned(c) ==
  \E k \in DOMAIN responses : responses[k].call = c /\ responses[k].ok

RelocationCalls == {"files.get", "files.update"}

\* C14: RemoteWriteFailure. Once the create call or the batch update has
\* failed, create_document has returned None (no id, no URL), no membership
\* read or update is ever issued, and a document that was created stays where
\* it was created: nothing deletes it.
C14_RemoteWriteFailure ==
  (CallFailed("create") \/ CallFailed("batchUpdate")) =>
    /\ cpc = "done"
    /\ result = ReturnedNone
    /\ \A k \in DOMAIN calls : calls[k] \notin RelocationCalls
    /\ \A k \in DOMAIN calls : calls[k] \in {"create", "batchUpdate"}
    /\ CallReturned("create") => parents = {RootFolder}

\* The batch update fails for a document that was to be moved to a folder.
C14_Witness ==
  /\ cpc = "done"
  /\ folder_id \in Folders
  /\ CallReturned("create")
  /\ CallFailed("batchUpdate")

\* C15: RelocationFailure. When create and batch update succeeded and the
\* membership read or the membership update failed, create_document returns
\* the created document's id, URL and title.
C15_RelocationFailure ==
  ( /\ cpc = "done"
    /\ CallReturned("create")
    /\ CallReturned("batchUpdate")
    /\ CallFailed("files.get") \/ CallFailed("files.update") ) =>
    result = [id |-> DocId,
              url |-> <<"https://docs.google.com/document/d/", DocId, "/edit">>,
              title |-> Title]

\* The membership update fails after the membership read returned.
C15_Witness ==
  /\ cpc = "done"
  /\ CallReturned("create")
  /\ CallReturned("batchUpdate")
  /\ CallReturned("files.get")
  /\ CallFailed("files.update")


\* The place of a remote call in the order create, batch update, membership
\* read, membership update.
CallRank(c) ==
  CASE c = "create" -> 1
    [] c = "batchUpdate" -> 2
    [] c = "files.get" -> 3
    [] c = "files.update" -> 4

\* C16: in every run of create_document the remote calls are issued in the
\* order create, at most one batch update, then, only with a folder id,
\* membership read followed by membership update. Each call has ended before
\* the next is issued; the batch update follows a create that returned and
\* precedes every relocation call.
C16_CallOrder ==
  /\ Len(responses) = Len(calls)
  /\ \A k \in DOMAIN calls : responses[k].call = calls[k]
  /\ \A i, j \in DOMAIN calls : i < j => CallRank(calls[i]) < CallRank(calls[j])
  /\ \A k \in DOMAIN calls :
       /\ k = 1 => calls[k] = "create"
       /\ k > 1 => responses[1].ok
       /\ calls[k] = "batchUpdate" => k = 2
       /\ calls[k] \in RelocationCalls => folder_id # NoFolder
       /\ calls[k] = "files.update" =>
            k > 1 /\ calls[k - 1] = "files.get" /\ responses[k - 1].ok

\* A run with a folder id that issued all four calls.
C16_Witness ==
  /\ cpc = "done"
  /\ folder_id \in Folders
  /\ calls = <<"create", "batchUpdate", "files.get", "files.update">>


\* The line holds a bold marker: two adjacent "*".
HasMarker(line) ==
  \E p \in 1..(Len(line) - 1) : line[p] = "*" /\ line[p + 1] = "*"

\* The number of "*" characters of s.
Stars(s) == Cardinality({p \in DOMAIN s : s[p] = "*"})

\* C19: MalformedMarkdownSpan. On a line of the else branch, a `**` marker
\* without a closing `**` yields no Bold span and stays in the flattened text:
\* a line without any complete pair yields no span and keeps its text (after
\* the blockquote indentation), and on any line only the complete pairs yield
\* spans and lose their four marker characters.
C19_UnterminatedMarkerKept ==
  \A j \in 1..idx :
    IsOther(lines[j]) =>
      LET line == lines[j]
          pairs == Len(FindIter(line))
      IN /\ Len(line_spans[j]) = pairs
         /\ Stars(full_text[j]) = Stars(line) - 4 * pairs
         /\ pairs = 0 =>
              full_text[j] =
                IF IsBlockquote(line)
                  THEN QuoteIndent \o LStrip(line \o <<NL>>, {">", " "})
                  ELSE line \o <<NL>>

\* A line after the first that holds a marker and no complete pair.
C19_Witness ==
  \E j \in 2..idx :
    /\ IsOther(lines[j])
    /\ HasMarker(lines[j])
    /\ FindIter(lines[j]) = <<>>
    /\ line_spans[j] = <<>>
    /\ HasMarker(full_text[j])

\* C20: a line equal to `---` contributes exactly one newline character to
\* the flattened text and no format span, wherever it stands.
C20_RuleLineOneNewline ==
  \A j \in 1..idx :
    lines[j] = RuleLine =>
      /\ full_text[j] = <<NL>>
      /\ line_spans[j] = <<>>
      /\ Len(Join(SubSeq(full_text, 1, j))) = LineStart(j) + 1

\* A `---` line between two other lines, after the loop has passed all three.
C20_Witness ==
  \E j \in 2..(idx - 1) :
    /\ lines[j] = RuleLine
    /\ idx = Len(lines)
    /\ lines[j - 1] # RuleLine


\* C17: with --save-local every save of an analysis writes a local markdown
\* file and none creates a Google Doc, whatever the path: the menus' number,
\* 'all', 'batch' and 'range' choices in Gmail and Drive mode, and --email.
C17_SaveLocalNeverCreatesDoc ==
  args.save_local =>
    \A k \in DOMAIN attempts :
      attempts[k].how # "none" => attempts[k].how = "local"

\* The documents the loading loop was given and kept, in order.
LoadedIds ==
  LET kept == SelectSeq(load_log, LAMBDA e : e.ok) IN
  [k \in 1..Len(kept) |-> kept[k].doc]

\* C18: in a batch run a failure for one document does not end the work on
\* the others. In Drive mode the loading loop goes through every listed
\* document whatever the earlier loads returned, and keeps exactly those that
\* came back with text; when the batch choice saves separate files, a save is
\* made for every result, in order, whatever the earlier saves returned.
C18_BatchFailureIsolated ==
  /\ (args.source = "drive" /\ ndocs > 0 /\ mpc \notin {"main", "load"}) =>
       /\ Len(load_log) = ndocs
       /\ \A k \in 1..ndocs : load_log[k].doc = k
       /\ transcripts = LoadedIds
  /\ (job.choice = "batch" /\ job.separate /\ job.save /\ mpc # "save") =>
       /\ Len(attempts) = Len(job.results)
       /\ \A k \in DOMAIN attempts :
            /\ attempts[k].ids = <<job.results[k].id>>
            /\ ~job.results[k].error => attempts[k].how \in {"local", "gdoc"}

\* Drive mode, three documents: the first load comes back empty, the other
\* two are loaded; in the batch the first save fails and the second is made.
C18_Witness ==
  /\ args.source = "drive"
  /\ mpc = "menu"
  /\ load_log = <<[doc |-> 1, ok |-> FALSE], [doc |-> 2, ok |-> TRUE],
                  [doc |-> 3, ok |-> TRUE]>>
  /\ job.choice = "batch"
  /\ job.separate
  /\ attempts = <<Attempt(<<2>>, "gdoc", FALSE), Attempt(<<3>>, "gdoc", TRUE)>>


\* C21: table traversal is recursive. For a body in which a table cell holds
\* a nested table, the text runs of the nested table are part of the
\* extracted text, in document order: the result is the full-depth walk.
C21_NestedTablesIncluded ==
  (epc = "done" /\ ~NoNestedTable(elements)) =>
    extracted = RunsInOrder(elements)


\* The positions of create_document after files().update has returned.
AfterWrite == {"return", "done"}

\* The folders other actors put the document in between the membership read
\* and the membership write.
AddedInWindow ==
  { external[k].folder : k \in {n \in DOMAIN external : external[n].at = "files.update"} }

\* C22: relocation race. The membership write removes the containers the
\* read returned and adds the destination, whatever happened in between: as
\* long as nobody changes the membership after the write, a relocated
\* document is a member of the destination and of every container that
\* another actor put it in between the read and the write and that the read
\* had not returned; without such interference its membership is exactly the
\* destination.
C22_RelocationRace ==
  ( /\ CallReturned("files.update")
    /\ \A k \in DOMAIN external : external[k].at \notin AfterWrite ) =>
    /\ previous_parents \cap parents \subseteq {folder_id}
    /\ parents = {folder_id} \cup (AddedInWindow \ previous_parents)

\* The relocation succeeded and the document is also in another container,
\* put there between the read and the write.
C22_Witness ==
  /\ cpc = "done"
  /\ CallReturned("files.update")
  /\ AddedInWindow # {}
  /\ \E c \in parents : c # folder_id
  /\ folder_id \in parents


\* C23: in the emitted list the style requests come after the insertText and
\* in non-increasing order of their span start.
C23_StyleRequestsDescending ==
  pc = "done" =>
    /\ requests # <<>>
    /\ requests[1].op = "insertText"
    /\ \A k \in 2..Len(requests) : requests[k].op # "insertText"
    /\ \A k \in 2..(Len(requests) - 1) :
         requests[k].startIndex >= requests[k + 1].startIndex

\* Two spans collected in ascending order of start are emitted in descending
\* order.
C23_Witness ==
  /\ pc = "done"
  /\ Len(requests) >= 3
  /\ Len(CollectedSpans) >= 2
  /\ CollectedSpans[1].start < CollectedSpans[2].start
  /\ requests[2].startIndex > requests[3].startIndex


\* s is a prefix of t.
IsPrefixOf(s, t) == Len(s) <= Len(t) /\ SubSeq(t, 1, Len(s)) = s

\* What a step of the conversion does to the flattened text: it never alters
\* what is there, and a step of the loop appends the text of its line and
\* places the spans of that line from an offset equal to the length of the
\* text flattened before the step.
AppendOnlyStep ==
  /\ IsPrefixOf(Join(full_text), Join(full_text'))
  /\ idx' = idx + 1 =>
       LET line == lines[idx']
           offset == Len(Join(full_text))
           new == line_spans'[idx']
       IN /\ Join(full_text') = Join(full_text) \o full_text'[idx']
          /\ (IsHeading1(line) \/ IsHeading2(line)) =>
               Len(new) = 1 /\ new[1].start = offset
          /\ IsOther(line) =>
               /\ Len(new) = Len(FindIter(line))
               /\ \A k \in DOMAIN new :
                    new[k].start = offset + FindIter(line)[k].start

\* C24: while the lines are processed in order the flattened text only grows
\* by appending, and the offset used as the start of a line equals the length
\* of the flattened text the earlier lines produced.
C24_AppendOnly == [][AppendOnlyStep]_vars

\* A heading on the second line, after a first line that lost its bold
\* markers: the heading span starts at the length of the flattened first
\* line, which is shorter than the line as written.
C24_Witness ==
  /\ idx >= 2
  /\ IsOther(lines[1])
  /\ FindIter(lines[1]) # <<>>
  /\ IsHeading1(lines[2]) \/ IsHeading2(lines[2])
  /\ line_spans[2][1].start = Len(full_text[1])
  /\ Len(full_text[1]) < Len(lines[1]) + 1


\* The line starts with a run of (at least three) dash characters or of
\* box-drawing rule characters.
StartsWithRuleRun(line) ==
  /\ Len(line) >= 3
  /\ \E c \in {"-", BoxChar} : \A p \in 1..3 : line[p] = c

\* C25: a line that starts with a run of dash or box-drawing rule characters
\* (`----`, `-----`, a row of box-drawing characters) is treated like a rule:
\* it contributes a single newline to the flattened text and no format span.
C25_RuleRunsAreRules ==
  \A j \in 1..idx :
    StartsWithRuleRun(lines[j]) =>
      /\ full_text[j] = <<NL>>
      /\ line_spans[j] = <<>>


\* The line with its bold markers stripped and its leading whitespace
\* dropped.
QuoteBody(line) == LStrip(ReSub(line), Whitespace)

\* C26: a non-heading, non-rule line that starts with the blockquote marker
\* `>` once its bold markers are stripped is flattened to the four-space
\* indentation, then the rest of the line after the marker and the
\* whitespace that follows it, unchanged, then one newline.
C26_BlockquoteIndent ==
  \A j \in 1..idx :
    (IsOther(lines[j]) /\ StartsWith(QuoteBody(lines[j]), <<">">>)) =>
      full_text[j] =
        QuoteIndent \o LStrip(Tail(QuoteBody(lines[j])), Whitespace) \o <<NL>>


\* C27: on a blockquote line that holds `**...**` pairs, each Bold span
\* recorded for the line covers exactly the bold text in the flattened text:
\* its offsets account for the indentation that replaced the `>` marker.
C27_BlockquoteBoldExact ==
  \A j \in 1..idx :
    ( /\ IsOther(lines[j])
      /\ IsBlockquote(lines[j])
      /\ FindIter(lines[j]) # <<>> ) =>
      LET line == lines[j]
          ms == FindIter(line)
      IN /\ Len(line_spans[j]) = Len(ms)
         /\ \A k \in DOMAIN ms :
              LET inner == BoldInner(line, ms[k])
                  sp == line_spans[j][k]
              IN /\ sp.format_type = "bold"
                 /\ sp.start = LineStart(j) + BoldOffset(line, k)
                 /\ sp.end = sp.start + Len(inner)
                 /\ SpanText(sp) = inner


\* C28: every line of the content contributes exactly one newline character,
\* its last, to the flattened text; so the flattened text holds one newline
\* more than the content, is never empty, and the insertText that is emitted
\* never carries an empty text.
C28_OneNewlinePerLine ==
  /\ \A j \in 1..idx :
       /\ Occurrences(full_text[j], NL) = 1
       /\ full_text[j][Len(full_text[j])] = NL
  /\ pc = "done" =>
       /\ Occurrences(FullTextStr, NL) = Occurrences(content, NL) + 1
       /\ FullTextStr # <<>>
       /\ requests[1].op = "insertText"
       /\ requests[1].text = FullTextStr
       /\ Len(requests[1].text) > 0

\* A content of three lines, a heading, a rule and an empty last line, has
\* been converted.
C28_Witness ==
  /\ pc = "done"
  /\ Len(lines) = 3
  /\ IsHeading1(lines[1])
  /\ lines[2] = RuleLine
  /\ lines[3] = <<>>
  /\ Occurrences(FullTextStr, NL) = 3


\* C29: get_document_content prints the 'Neither Transcript nor Notes tab
\* found' note, and falls back to the first tab, only when no tab of the
\* document is titled Transcript or Notes (in any case); in particular not
\* with prefer_transcript=False and a Transcript tab as the only
\* preferred-name tab.
C29_NeitherNoteOnlyWithoutPreferredTabs ==
  (\E k \in DOMAIN printed : printed[k] = MsgNeither) =>
    \A t \in DOMAIN document.tabs :
      /\ ~TranscriptTitled(document.tabs[t])
      /\ ~NotesTitled(document.tabs[t])

====
